---------------------------- MODULE Spec2Model ----------------------------
(***************************************************************************)
(* Model of src/solver.py: the Wordle feedback function, the two guess     *)
(* selectors and the elimination loop solve_wordle.                        *)
(*                                                                         *)
(* Words are sequences of one-character strings, feedback patterns are     *)
(* sequences over "G", "Y", "B".  Python floats (IEEE-754 binary64) are    *)
(* modelled exactly for the values the selectors produce: a non-negative   *)
(* float below 8.0 is a fixed-point number with 60 fraction bits, held in  *)
(* three limbs of 21 bits <<hi, mid, lo>>, and every operation rounds its  *)
(* exact result to 53 significant bits, ties to even.                      *)
(***************************************************************************)
EXTENDS Integers, Sequences, FiniteSets, TLC

VARIABLES candidates, correct_word, remaining, attempts, guess, feedback,
          result, pc

vars == <<candidates, correct_word, remaining, attempts, guess, feedback,
          result, pc>>

----------------------------------------------------------------------------
(* Bounds of the model and constants of the program. *)

\* Length of a word and of a feedback pattern (['B'] * 5, range(5)).
WordLen == 5

\* Number of letters of the alphabet the feedback inputs are drawn from.
NumLetters == 3

\* Longest dictionary handed to solve_wordle.
MaxDict == 3

\* Longest argument handed to _feedback when lengths are unconstrained.
MaxLen == 6

Letters == <<"A", "B", "C", "D">>

Alphabet == {Letters[i] : i \in 1..(IF NumLetters < Len(Letters) THEN NumLetters ELSE Len(Letters))}

\* Python's None (line 25), and the exceptions the modelled code can raise.
None == "None"

\* A local that is not bound yet.
Unbound == <<>>

IndexError == <<"IndexError">>

ValueError == <<"ValueError">>

Range(s) == {s[i] : i \in DOMAIN s}

----------------------------------------------------------------------------
(* _feedback, lines 14-33.  Indexing past the end of a list raises         *)
(* IndexError, which the state record carries in its field raised.         *)

FeedbackStart(answer) ==
  [feedback |-> [i \in 1..WordLen |-> "B"], answer_remaining |-> answer, raised |-> FALSE]

\* The first pass without line 25: a matched answer letter stays available
\* to the second pass.
GreenStepNoConsume(st, guess_, answer, i) ==
  IF st.raised THEN st
  ELSE IF i > Len(answer) THEN [st EXCEPT !.raised = TRUE]
  ELSE IF guess_[i] # answer[i] THEN st
  ELSE IF i > WordLen THEN [st EXCEPT !.raised = TRUE]
  ELSE [st EXCEPT !.feedback[i] = "G"]

\* The first pass without line 24: a match uses the answer letter up and
\* leaves the position "B".
GreenStepNoMark(st, guess_, answer, i) ==
  IF st.raised THEN st
  ELSE IF i > Len(answer) THEN [st EXCEPT !.raised = TRUE]
  ELSE IF guess_[i] # answer[i] THEN st
  ELSE [st EXCEPT !.answer_remaining[i] = None]

\* Lines 22-25: one iteration of the first pass, i counted from 1.
GreenStep(st, guess_, answer, i) ==
  IF st.raised THEN st
  ELSE IF i > Len(answer) THEN [st EXCEPT !.raised = TRUE]
  ELSE IF guess_[i] # answer[i] THEN st
  ELSE IF i > WordLen THEN [st EXCEPT !.raised = TRUE]
  ELSE [st EXCEPT !.feedback[i] = "G", !.answer_remaining[i] = None]

RECURSIVE GreenPass(_, _, _, _)
GreenPass(st, guess_, answer, i) ==
  IF i > Len(guess_) THEN st
  ELSE GreenPass(GreenStep(st, guess_, answer, i), guess_, answer, i + 1)

\* list.index: the first position holding ch.
Index(list, ch) == CHOOSE k \in DOMAIN list : list[k] = ch /\ \A j \in 1..(k-1) : list[j] # ch

\* Lines 28-31: one iteration of the second pass.
YellowStep(st, guess_, i) ==
  IF st.raised THEN st
  ELSE IF i > WordLen THEN [st EXCEPT !.raised = TRUE]
  ELSE IF st.feedback[i] = "B" /\ guess_[i] \in Range(st.answer_remaining)
       THEN [st EXCEPT !.feedback[i] = "Y",
                       !.answer_remaining[Index(st.answer_remaining, guess_[i])] = None]
  ELSE st

RECURSIVE YellowPass(_, _, _)
YellowPass(st, guess_, i) ==
  IF i > Len(guess_) THEN st
  ELSE YellowPass(YellowStep(st, guess_, i), guess_, i + 1)

_feedback(guess_, answer) ==
  LET st == YellowPass(GreenPass(FeedbackStart(answer), guess_, answer, 1), guess_, 1)
  IN IF st.raised THEN IndexError ELSE st.feedback

----------------------------------------------------------------------------
(* Python float arithmetic.  A float x with 0 <= x < 8 that is a multiple  *)
(* of 2^-60 is the tuple <<hi, mid, lo>> with                              *)
(* x * 2^60 = hi * Base^2 + mid * Base + lo.                               *)

Base == 2^21

FZero == <<0, 0, 0>>

\* Bits below the 53 significant ones of a value whose top limb is hi.
DropBits(hi) ==
  IF hi < 2^11 THEN 0
  ELSE CHOOSE d \in 1..11 : 2^(d + 10) <= hi /\ hi < 2^(d + 11)

\* Round an exact value to 53 significant bits, ties to even; sticky says
\* that the exact value lies strictly above v.
Round(v, sticky) ==
  LET d == DropBits(v[1])
  IN IF d = 0 THEN v
     ELSE LET m    == 2^d
              r    == v[3] % m
              q    == v[3] \div m
              up   == r > m \div 2 \/ (r = m \div 2 /\ (sticky \/ q % 2 = 1))
              lo   == (IF up THEN q + 1 ELSE q) * m
              mid  == v[2] + lo \div Base
          IN <<v[1] + mid \div Base, mid % Base, lo % Base>>

\* x + y (score += ..., entropy -= ... of a non-positive term).
FAdd(x, y) ==
  LET lo  == x[3] + y[3]
      mid == x[2] + y[2] + lo \div Base
  IN Round(<<x[1] + y[1] + mid \div Base, mid % Base, lo % Base>>, FALSE)

\* k / n for integers 0 <= k < 8192, n > 0 (count / total).
FDiv(k, n) ==
  LET n2 == k * 2^18
      n1 == (n2 % n) * Base
      n0 == (n1 % n) * Base
  IN Round(<<n2 \div n, n1 \div n, n0 \div n>>, n0 % n # 0)

\* 0.5 * x, exact.
FHalf(x) ==
  <<x[1] \div 2,
    x[2] \div 2 + (x[1] % 2) * (Base \div 2),
    x[3] \div 2 + (x[2] % 2) * (Base \div 2)>>

\* x < y
FLess(x, y) ==
  \/ x[1] < y[1]
  \/ x[1] = y[1] /\ x[2] < y[2]
  \/ x[1] = y[1] /\ x[2] = y[2] /\ x[3] < y[3]

\* max(d, key=d.get) over a dict whose keys were inserted in the order of
\* words: the first key whose value no other key exceeds; ValueError when
\* the dict is empty.  key is a function from the words to floats.
RECURSIVE MaxFrom(_, _, _, _)
MaxFrom(words, key, i, best) ==
  IF i > Len(words) THEN best
  ELSE MaxFrom(words, key, i + 1,
               IF FLess(key[best], key[words[i]]) THEN words[i] ELSE best)

MaxByKey(words, key) ==
  IF words = <<>> THEN ValueError ELSE MaxFrom(words, key, 2, words[1])

----------------------------------------------------------------------------
(* select_initial_word, lines 36-59. *)

\* position_counts[i][ch] after the loop of lines 40-43.
position_counts(cands, i, ch) ==
  Cardinality({k \in DOMAIN cands : cands[k][i] = ch})

\* overall_counts[ch] after the loop of lines 40-43.
overall_counts(cands, ch) ==
  Cardinality({k \in DOMAIN cands : ch \in Range(cands[k])})

\* Lines 50-57: the score of word after positions i.. have been added to
\* score, used being the letters seen before position i.
RECURSIVE ScoreFrom(_, _, _, _, _)
ScoreFrom(word, cands, i, score, used) ==
  IF i > Len(word) THEN score
  ELSE LET ch        == word[i]
           total     == Len(cands)
           freq_pos  == FDiv(position_counts(cands, i, ch), total)
           s1        == FAdd(score, freq_pos)
           elsewhere == FDiv(overall_counts(cands, ch) - position_counts(cands, i, ch), total)
       IN IF ch \in used
          THEN ScoreFrom(word, cands, i + 1, s1, used)
          ELSE ScoreFrom(word, cands, i + 1, FAdd(s1, FHalf(elsewhere)), used \cup {ch})

\* scores[word], lines 48-58.
Score(word, cands) == ScoreFrom(word, cands, 1, FZero, {})

select_initial_word(cands) ==
  MaxByKey(cands, [w \in Range(cands) |-> Score(w, cands)])

----------------------------------------------------------------------------
(* calculate_entropy, lines 62-73, and select_best_entropy_word, 76-79. *)

\* The keys of pattern_counts in insertion order after the first n words.
RECURSIVE PatternKeys(_, _, _)
PatternKeys(guess_, cands, n) ==
  IF n = 0 THEN <<>>
  ELSE LET before  == PatternKeys(guess_, cands, n - 1)
           pattern == _feedback(guess_, cands[n])
       IN IF pattern \in Range(before) THEN before ELSE Append(before, pattern)

\* pattern_counts[pattern] after the loop of lines 65-67.
pattern_counts(guess_, cands, pattern) ==
  Cardinality({k \in DOMAIN cands : _feedback(guess_, cands[k]) = pattern})

\* -(p * math.log2(p)) for p = count / total, as CPython computes it, for
\* total <= 7: TermTable[total][count].
TermTable ==
  << << <<0, 0, 0>> >>,
     << <<131072, 0, 0>>, <<0, 0, 0>> >>,
     << <<138496, 286463, 642432>>, <<102229, 1271977, 585856>>, <<0, 0, 0>> >>,
     << <<131072, 0, 0>>, <<131072, 0, 0>>, <<81599, 1452609, 1175936>>, <<0, 0, 0>> >>,
     << <<121735, 1895198, 1767936>>, <<138614, 434954, 1019264>>,
        <<115914, 1395088, 2050432>>, <<67513, 450478, 1199808>>, <<0, 0, 0>> >>,
     << <<112938, 1541332, 2068800>>, <<138496, 286463, 642432>>, <<131072, 0, 0>>,
        <<102229, 1271977, 585856>>, <<57460, 1557629, 1579520>>, <<0, 0, 0>> >>,
     << <<105133, 74505, 377728>>, <<135367, 1646976, 156288>>,
        <<137332, 1353171, 606976>>, <<120938, 2095579, 1211520>>,
        <<90894, 195007, 1566528>>, <<49970, 908783, 1513536>>, <<0, 0, 0>> >> >>

\* Lines 71-72: what one pattern subtracts from the entropy, negated.
Term(count, total) == TermTable[total][count]

\* Lines 68-72: the sum over pattern_counts.values() from the i-th on.
RECURSIVE EntropyFrom(_, _, _, _, _)
EntropyFrom(guess_, cands, keys, i, entropy) ==
  IF i > Len(keys) THEN entropy
  ELSE EntropyFrom(guess_, cands, keys, i + 1,
                   FAdd(entropy, Term(pattern_counts(guess_, cands, keys[i]), Len(cands))))

calculate_entropy(guess_, cands) ==
  EntropyFrom(guess_, cands, PatternKeys(guess_, cands, Len(cands)), 1, FZero)

select_best_entropy_word(cands) ==
  MaxByKey(cands, [w \in Range(cands) |-> calculate_entropy(w, cands)])

----------------------------------------------------------------------------
(* solve_wordle, lines 82-100. *)

\* Line 94 with the arguments of _feedback exchanged.
FilterRemainingSwapped(rem, guess_, feedback_) ==
  SelectSeq(rem, LAMBDA w : _feedback(w, guess_) = feedback_)

\* Line 94 comparing only where the patterns are "G".
FilterRemainingGreens(rem, guess_, feedback_) ==
  SelectSeq(rem, LAMBDA w : \A i \in 1..WordLen :
                              (_feedback(guess_, w)[i] = "G") = (feedback_[i] = "G"))

\* Line 94: the words of remaining whose pattern against guess is feedback.
FilterRemaining(rem, guess_, feedback_) ==
  SelectSeq(rem, LAMBDA w : _feedback(guess_, w) = feedback_)

\* Lines 88-91: the selector the turn uses.
SelectGuess(rem, att) ==
  IF att = <<>> THEN select_initial_word(rem) ELSE select_best_entropy_word(rem)

\* Line 98 stopping as soon as at most one candidate is left.
StopsOnLastCandidate(guess_, answer, rem) == guess_ = answer \/ Len(rem) <= 1

\* Line 98 without the test of the empty list.
StopsOnMatchOnly(guess_, answer, rem) == guess_ = answer

\* Line 98: the condition of the break.
Stops(guess_, answer, rem) == guess_ = answer \/ rem = <<>>

\* The value solve_wordle returns when the loop is entered with rem and
\* att: the list of attempts, or ValueError raised by a selector.
RECURSIVE SolveFrom(_, _, _)
SolveFrom(rem, att, answer) ==
  LET g == SelectGuess(rem, att)
  IN IF g = ValueError THEN ValueError
     ELSE LET rem2 == FilterRemaining(rem, g, _feedback(g, answer))
          IN IF Stops(g, answer, rem2) THEN Append(att, g)
             ELSE SolveFrom(rem2, Append(att, g), answer)

solve_wordle(cands, answer) == SolveFrom(cands, <<>>, answer)

\* The words the dictionaries and the answers are drawn from.
Vocabulary ==
  { <<"A", "C", "B", "B", "C">>, <<"B", "C", "B", "B", "C">>,
    <<"B", "C", "A", "C", "A">>, <<"C", "C", "B", "B", "C">>,
    <<"C", "C", "C", "B", "C">>, <<"A", "C", "C", "A", "B">> }

\* The dictionaries: every list of at most MaxDict words, repeats allowed.
Dictionaries == UNION {[1..n -> Vocabulary] : n \in 0..MaxDict}

Init ==
  /\ candidates \in Dictionaries
  /\ correct_word \in Vocabulary
  /\ remaining = candidates
  /\ attempts = <<>>
  /\ guess = Unbound
  /\ feedback = Unbound
  /\ result = Unbound
  /\ pc = "loop"

\* One iteration of the while loop, lines 88-99.  A selector called with
\* an empty list raises ValueError out of solve_wordle.
Turn ==
  /\ pc = "loop"
  /\ LET g == SelectGuess(remaining, attempts)
     IN IF g = ValueError
        THEN /\ pc' = "raised"
             /\ UNCHANGED <<remaining, attempts, guess, feedback>>
        ELSE LET fb  == _feedback(g, correct_word)
                 rem == FilterRemaining(remaining, g, fb)
             IN /\ guess' = g
                /\ attempts' = Append(attempts, g)
                /\ feedback' = fb
                /\ remaining' = rem
                /\ pc' = IF Stops(g, correct_word, rem) THEN "break" ELSE "loop"
  /\ UNCHANGED <<candidates, correct_word, result>>

\* Line 100.
Return ==
  /\ pc = "break"
  /\ result' = attempts
  /\ pc' = "done"
  /\ UNCHANGED <<candidates, correct_word, remaining, attempts, guess, feedback>>

Next == Turn \/ Return

Spec == Init /\ [][Next]_vars

----------------------------------------------------------------------------
(* The functions called on their own. *)

ROBOT == <<"R", "O", "B", "O", "T">>

WORLD == <<"W", "O", "R", "L", "D">>

FiveLetterWords == [1..WordLen -> Alphabet] \cup {ROBOT, WORLD}

AnyLengthWords == UNION {[1..n -> Alphabet] : n \in 0..MaxLen}

\* Every list of distinct words of the vocabulary.
Orderings ==
  {s \in UNION {[1..n -> Vocabulary] : n \in 0..Cardinality(Vocabulary)} :
     \A i, j \in DOMAIN s : s[i] = s[j] => i = j}

InitCall(guesses, answers, lists, calls) ==
  /\ guess \in guesses
  /\ correct_word \in answers
  /\ remaining \in lists
  /\ pc \in calls
  /\ candidates = remaining
  /\ attempts = <<>>
  /\ feedback = Unbound
  /\ result = Unbound

InitFeedback == InitCall(FiveLetterWords, FiveLetterWords, {<<>>}, {"call_feedback"})

InitAnyLength == InitCall(AnyLengthWords, AnyLengthWords, {<<>>}, {"call_feedback"})

InitSelect ==
  InitCall({Unbound}, {Unbound}, Orderings, {"call_select_initial", "call_select_best"})

\* feedback = _feedback(guess, correct_word)
CallFeedback ==
  /\ pc = "call_feedback"
  /\ feedback' = _feedback(guess, correct_word)
  /\ pc' = "returned"
  /\ UNCHANGED <<candidates, correct_word, remaining, attempts, guess, result>>

\* guess = select_initial_word(remaining)
CallSelectInitial ==
  /\ pc = "call_select_initial"
  /\ guess' = select_initial_word(remaining)
  /\ pc' = "returned_initial"
  /\ UNCHANGED <<candidates, correct_word, remaining, attempts, feedback, result>>

\* guess = select_best_entropy_word(remaining)
CallSelectBest ==
  /\ pc = "call_select_best"
  /\ guess' = select_best_entropy_word(remaining)
  /\ pc' = "returned_best"
  /\ UNCHANGED <<candidates, correct_word, remaining, attempts, feedback, result>>

NextSelect == CallSelectInitial \/ CallSelectBest

FeedbackSpec == InitFeedback /\ [][CallFeedback]_vars

LengthSpec == InitAnyLength /\ [][CallFeedback]_vars

SelectSpec == InitSelect /\ [][NextSelect]_vars

----------------------------------------------------------------------------
(* Properties. *)

InDictionary == candidates # <<>> /\ correct_word \in Range(candidates)

NotInDictionary == candidates # <<>> /\ correct_word \notin Range(candidates)

Stopped == pc \in {"break", "done"}

\* C1: for every dictionary and every answer in it, solve_wordle terminates
\* (it is in the loop, at the break or has returned, never stopped by an
\* exception, and there are never more attempts than dictionary words, so
\* the loop body runs at most that often) and the last
\* attempt is the answer; no earlier attempt is, and the loop never stops on
\* an empty candidate list before the answer is guessed.
C1_SolvesAnswerInDictionary ==
  InDictionary =>
    /\ pc \in {"loop", "break", "done"}
    /\ Len(attempts) <= Len(candidates)
    /\ Stopped =>
         /\ attempts # <<>>
         /\ attempts[Len(attempts)] = correct_word
         /\ \A i \in 1..(Len(attempts) - 1) : attempts[i] # correct_word
         /\ guess = correct_word
         /\ remaining # <<>>
    /\ pc = "done" => result = attempts

C1_Witness ==
  /\ InDictionary
  /\ pc = "done"
  /\ Len(result) >= 2
  /\ result[Len(result)] = correct_word

\* C2: for every non-empty dictionary and every answer outside it,
\* solve_wordle terminates (it is in the loop, at the break or has returned,
\* never stopped by an exception, and there are never more attempts than
\* dictionary words), the loop stops
\* only with the candidate list empty and no attempt equal to the answer,
\* and no selector is ever called on an empty list.
C2_ExhaustsWhenAnswerMissing ==
  NotInDictionary =>
    /\ pc \in {"loop", "break", "done"}
    /\ Len(attempts) <= Len(candidates)
    /\ pc = "loop" => remaining # <<>>
    /\ Stopped => remaining = <<>> /\ correct_word \notin Range(attempts)
    /\ pc = "done" => result = attempts

C2_Witness ==
  /\ NotInDictionary
  /\ pc = "done"
  /\ Len(result) >= 2
  /\ remaining = <<>>

\* C3: the value returned by an exhausted session (answer outside the
\* dictionary, candidate list emptied) differs from the value every solved
\* session on the same dictionary returns.
C3_ExhaustedIsDistinct ==
  (pc = "done" /\ NotInDictionary) =>
    \A a \in Range(candidates) : solve_wordle(candidates, a) # result

\* C4: filtering a candidate list that holds the answer by the pattern of
\* any guess against the answer keeps the answer, and in every state of
\* solve_wordle whose dictionary holds the answer the candidate list does.
C4_FilterKeepsAnswer ==
  /\ InDictionary => correct_word \in Range(remaining)
  /\ \A g \in Vocabulary :
       correct_word \in Range(remaining) =>
         correct_word \in Range(FilterRemaining(remaining, g, _feedback(g, correct_word)))

C4_Witness ==
  /\ InDictionary
  /\ Len(attempts) >= 2
  /\ Len(remaining) < Len(candidates)
  /\ correct_word \in Range(remaining)

Occurrences(c, word) == Cardinality({i \in DOMAIN word : word[i] = c})

Min(a, b) == IF a < b THEN a ELSE b

\* C5: for five-letter guess and answer, position i is "G" exactly when the
\* letters agree there; for every letter c the positions of the guess
\* holding c and marked "G" or "Y" number min(occurrences of c in the guess,
\* occurrences of c in the answer); the "Y" marks of c go to its leftmost
\* positions that are not "G"; a word against itself is all "G"; and
\* ROBOT against WORLD is Y G B B B.
C5_FeedbackMarks ==
  pc = "returned" =>
    /\ feedback \in [1..WordLen -> {"G", "Y", "B"}]
    /\ \A i \in 1..WordLen : feedback[i] = "G" <=> guess[i] = correct_word[i]
    /\ \A c \in Range(guess) :
         Cardinality({i \in 1..WordLen : guess[i] = c /\ feedback[i] \in {"G", "Y"}})
           = Min(Occurrences(c, guess), Occurrences(c, correct_word))
    /\ \A i, j \in 1..WordLen :
         (i < j /\ guess[i] = guess[j] /\ feedback[i] # "G" /\ feedback[j] = "Y")
           => feedback[i] = "Y"
    /\ guess = correct_word => feedback = [i \in 1..WordLen |-> "G"]
    /\ (guess = ROBOT /\ correct_word = WORLD) => feedback = <<"Y", "G", "B", "B", "B">>

\* A guess with a repeated letter of which the answer has fewer: the left
\* occurrence is "Y", the right one "B".
C5_Witness ==
  /\ pc = "returned"
  /\ \E i, j \in 1..WordLen :
       i < j /\ guess[i] = guess[j] /\ feedback[i] = "Y" /\ feedback[j] = "B"

\* C6: _feedback called with a guess or an answer whose length is not five
\* raises an error and returns no pattern.
C6_RejectsWrongLength ==
  (pc = "returned" /\ (Len(guess) # WordLen \/ Len(correct_word) # WordLen))
    => feedback = IndexError

\* 2 * len(candidates) * score(word): for every position the count of the
\* letter there, twice, plus, at the first occurrence of a letter, the number
\* of words holding the letter less the count at the position.
ExactScore(word, cands) ==
  LET at(i) == Cardinality({k \in DOMAIN cands : cands[k][i] = word[i]})
      anywhere(i) == Cardinality({k \in DOMAIN cands : word[i] \in Range(cands[k])})
      first(i) == \A j \in 1..(i - 1) : word[j] # word[i]
      part(i) == 2 * at(i) + (IF first(i) THEN anywhere(i) - at(i) ELSE 0)
  IN part(1) + part(2) + part(3) + part(4) + part(5)

\* C7: for a non-empty list, select_initial_word returns a member whose
\* score is maximal and, among the words of maximal score, the first.
C7_InitialIsFirstMaximum ==
  (pc = "returned_initial" /\ remaining # <<>>) =>
    \E k \in DOMAIN remaining :
      /\ guess = remaining[k]
      /\ \A j \in DOMAIN remaining :
           ExactScore(remaining[j], remaining) <= ExactScore(guess, remaining)
      /\ \A j \in 1..(k - 1) :
           ExactScore(remaining[j], remaining) < ExactScore(guess, remaining)

\* The patterns the words of cands give against guess_.
Patterns(guess_, cands) == {_feedback(guess_, cands[k]) : k \in DOMAIN cands}

\* The product of c^c over the sizes c of the classes of the partition of
\* cands by pattern against guess_: H = log2(n) - log2(product) / n, so a
\* larger entropy is a smaller product.
RECURSIVE PowerProduct(_, _, _)
PowerProduct(guess_, cands, pats) ==
  IF pats = {} THEN 1
  ELSE LET pat == CHOOSE x \in pats : TRUE
           c   == Cardinality({k \in DOMAIN cands : _feedback(guess_, cands[k]) = pat})
       IN c^c * PowerProduct(guess_, cands, pats \ {pat})

EntropyRank(guess_, cands) == PowerProduct(guess_, cands, Patterns(guess_, cands))

\* C8: for a non-empty list, select_best_entropy_word returns a member of
\* maximal entropy and, among those, the first; the entropy of a word is 0
\* exactly when all words give one pattern against it; a list of one word
\* yields that word.
C8_BestIsFirstMaximum ==
  (pc = "returned_best" /\ remaining # <<>>) =>
    /\ \E k \in DOMAIN remaining :
         /\ guess = remaining[k]
         /\ \A j \in DOMAIN remaining :
              EntropyRank(guess, remaining) <= EntropyRank(remaining[j], remaining)
         /\ \A j \in 1..(k - 1) :
              EntropyRank(guess, remaining) < EntropyRank(remaining[j], remaining)
    /\ \A w \in Range(remaining) :
         calculate_entropy(w, remaining) = FZero <=> Cardinality(Patterns(w, remaining)) = 1
    /\ Len(remaining) = 1 => guess = remaining[1]

\* The words of rem consistent with every attempt, in the order of rem.
Consistent(rem, att, answer) ==
  SelectSeq(rem, LAMBDA w : \A k \in DOMAIN att :
                              _feedback(att[k], w) = _feedback(att[k], answer))

\* s is t with some of its elements removed.
RECURSIVE IsSubSeq(_, _)
IsSubSeq(s, t) ==
  IF s = <<>> THEN TRUE
  ELSE IF t = <<>> THEN FALSE
  ELSE IF Head(s) = Head(t) THEN IsSubSeq(Tail(s), Tail(t))
  ELSE IsSubSeq(s, Tail(t))

\* A turn of the loop has run.
TurnTaken == pc = "loop" /\ pc' # "raised"

\* C9: every turn makes the candidate list the sub-sequence of the previous
\* one made of the words whose pattern against the guess is the answer's: no
\* word is gained, the length does not grow, and after k attempts the list
\* is the dictionary restricted to the words consistent with all k guesses.
C9_FilterIsExact ==
  [][TurnTaken =>
       /\ remaining' = Consistent(remaining, <<guess'>>, correct_word)
       /\ IsSubSeq(remaining', remaining)
       /\ Len(remaining') <= Len(remaining)
       /\ remaining' = Consistent(candidates, attempts', correct_word)]_vars

C9_Witness ==
  /\ Len(attempts) >= 2
  /\ remaining # <<>>
  /\ Len(remaining) < Len(candidates)
  /\ \E w \in Range(candidates) :
       w \notin Range(remaining) /\ _feedback(attempts[1], w) = _feedback(attempts[1], correct_word)

\* C10: every guess is a member of the candidate list of its turn; a guess
\* that is not the answer is removed by that turn's filter, so the list
\* shrinks strictly on every turn that is not the last; no word is attempted
\* twice; and the attempts never outnumber the distinct dictionary words.
C10_GuessIsEliminated ==
  [][TurnTaken =>
       /\ guess' \in Range(remaining)
       /\ guess' # correct_word => guess' \notin Range(remaining')
       /\ pc' = "loop" => Len(remaining') < Len(remaining)
       /\ \A i, j \in DOMAIN attempts' : attempts'[i] = attempts'[j] => i = j
       /\ Len(attempts') <= Cardinality(Range(candidates))]_vars

\* A dictionary with a repeated word and without the answer, every distinct
\* word of which has been attempted once.
C10_Witness ==
  /\ NotInDictionary
  /\ pc = "done"
  /\ Len(attempts) >= 2
  /\ Len(attempts) = Cardinality(Range(candidates))
  /\ Cardinality(Range(candidates)) < Len(candidates)

=============================================================================
